---- MODULE Spec2Model ----
(***************************************************************************)
(* Model of steam_launcher.py: one run of main() after another against the *)
(* same sqlite database, and request_app_name() on its own.                *)
(*                                                                         *)
(* Texts (display names, the prompt's output, str(appid)) are sequences of *)
(* one-character strings, so that strip() and str()/integer affinity are   *)
(* computed, not assumed.                                                  *)
(***************************************************************************)
EXTENDS Integers, Sequences, FiniteSets, TLC

\* ---------------------------------------------------------------- bounds
MaxRuns == 2          \* runs of the program against one database
MaxLines == 3         \* lines of the library description file
MaxTriesBound == 3    \* largest max_tries of a direct request_app_name call
MaxStamp == 2         \* latest timestamp in the table a direct launch_game finds

AppIds == {10, 20, 30}
Null == 0             \* SQL NULL in the timestamp column

\* ------------------------------------------------------------- the inputs
\* A line of libraryfolders.vdf: either it matches appid_re and carries an
\* appid, or it does not match.
Lines == [match : {TRUE}, id : AppIds] \cup {[match |-> FALSE, id |-> 0]}

SeqsUpTo(S, n) == UNION {[1..k -> S] : k \in 0..n}

Files == SeqsUpTo(Lines, MaxLines)

\* HTTP statuses the store answers with.
Statuses == {200, 204, 503}

\* The "name" field of a successful payload, before strip().
RawNames == {<<"a">>, <<"b", " ">>, <<" ">>}

\* What the user may type into the prompt instead of picking a line.
CustomText == <<"z">>

Whitespace == {" ", "\n"}

\* ------------------------------------------------------------- constants
DefaultMaxTries == 3

\* -------------------------------------------------------------- helpers
Range(s) == {s[k] : k \in DOMAIN s}

\* list(some_set): the elements in an order the set's hashing decides.
ListsOf(S) == {s \in [1..Cardinality(S) -> S] : Range(s) = S}

RECURSIVE LStrip(_)
LStrip(s) == IF s # <<>> /\ Head(s) \in Whitespace THEN LStrip(Tail(s)) ELSE s

RECURSIVE RStrip(_)
RStrip(s) ==
    IF s # <<>> /\ s[Len(s)] \in Whitespace
    THEN RStrip(SubSeq(s, 1, Len(s) - 1))
    ELSE s

\* str.strip()
Strip(s) == RStrip(LStrip(s))

DigitChars == <<"0", "1", "2", "3", "4", "5", "6", "7", "8", "9">>

\* str(n) for n >= 0
RECURSIVE Str(_)
Str(n) ==
    IF n < 10 THEN <<DigitChars[n + 1]>>
    ELSE Append(Str(n \div 10), DigitChars[(n % 10) + 1])

DigitValue(c) == CHOOSE d \in 0..9 : DigitChars[d + 1] = c

\* sqlite's INTEGER affinity applied to a text of digits
RECURSIVE IntegerAffinity(_)
IntegerAffinity(t) ==
    IF t = <<>> THEN 0
    ELSE 10 * IntegerAffinity(SubSeq(t, 1, Len(t) - 1)) + DigitValue(t[Len(t)])

EmptyDb == [a \in {} |-> [name |-> <<>>, timestamp |-> Null]]

VARIABLES
    db,           \* table games: appid -> [name, timestamp]
    clock,        \* datetime.now(), counted in calls of get_timestamp
    runs,         \* runs started so far
    pc,           \* position of the running code
    exc,          \* the exception that ended the run, "" if none
    lib_path,     \* TRUE when main got a path, FALSE when it got None
    blacklist,    \* config blacklist, as a set
    file_appids, db_appids, new_appids, old_appids,   \* locals of main
    file_dups,    \* TRUE when get_file_appids returned an appid twice
    idx, entries,                                     \* locals of update_db
    r_appid, max_tries, i, resp, app_name,            \* request_app_name
    sleeps,       \* backoff sleeps of the current request_app_name call
    games, stdout, selection, appid, returncode,      \* locals of main, tail
    prompts,      \* times the selection prompt ran in this run
    launches,     \* appids the launcher was started with in this run
    db0,          \* the table when the run started
    db_upd,       \* the table when get_game_entries read it
    loaded,       \* get_game_entries has run in this run
    named,        \* appids whose request returned a non-empty name in this run
    last_launch   \* entry -> clock of its last launch that exited 0

vars == <<db, clock, runs, pc, exc, lib_path, blacklist,
          file_appids, db_appids, new_appids, old_appids, file_dups,
          idx, entries,
          r_appid, max_tries, i, resp, app_name, sleeps,
          games, stdout, selection, appid, returncode,
          prompts, launches, db0, db_upd, loaded, named, last_launch>>

dbVars == <<db, clock>>
cfgVars == <<lib_path, blacklist>>
reconVars == <<file_appids, db_appids, new_appids, old_appids, file_dups>>
updVars == <<idx, entries>>
reqVars == <<r_appid, max_tries, i, resp, app_name, sleeps, named>>
tailVars == <<games, stdout, selection, appid, returncode, prompts, launches,
              db_upd, loaded>>
runVars == <<runs, db0>>

\* No entry has been launched.
NeverLaunched == [a \in {} |-> 0]

InitLocals ==
    /\ runs = 0
    /\ exc = ""
    /\ lib_path = FALSE
    /\ blacklist = {}
    /\ file_appids = {}
    /\ db_appids = {}
    /\ new_appids = <<>>
    /\ old_appids = <<>>
    /\ file_dups = FALSE
    /\ idx = 0
    /\ entries = <<>>
    /\ i = 0
    /\ resp = <<>>
    /\ app_name = <<>>
    /\ sleeps = 0
    /\ games = <<>>
    /\ stdout = <<>>
    /\ selection = <<>>
    /\ returncode = 0
    /\ prompts = 0
    /\ launches = <<>>
    /\ db_upd = EmptyDb
    /\ loaded = FALSE
    /\ named = {}
    /\ last_launch = NeverLaunched

InitRest ==
    /\ db = EmptyDb
    /\ clock = 0
    /\ appid = 0
    /\ db0 = EmptyDb
    /\ InitLocals

\* The tables a direct call of launch_game may find: rows inserted by
\* earlier runs, names as update_db stored them.
StoredNames == {<<"a">>, <<"b">>}
Catalogs ==
    UNION {[S -> [name : StoredNames, timestamp : 1..MaxStamp]] :
              S \in SUBSET AppIds}

\* A direct call launch_game(appid, con).
InitLaunch ==
    /\ pc = "launch"
    /\ db \in Catalogs
    /\ db0 = db
    /\ clock = MaxStamp
    /\ appid \in AppIds
    /\ r_appid = 0
    /\ max_tries = 0
    /\ InitLocals

\* The state after the database file was created and before the first run.
Init ==
    /\ pc = "exited"
    /\ r_appid = 0
    /\ max_tries = 0
    /\ InitRest

\* A direct call request_app_name(appid, max_tries).
InitResolver ==
    /\ pc = "req_loop"
    /\ r_appid \in AppIds
    /\ max_tries \in 0..MaxTriesBound
    /\ InitRest

\* ------------------------------------------------------ pure functions
NoDuplicates(s) == \A j, k \in DOMAIN s : s[j] = s[k] => j = k

\* get_file_appids: the appids of the matching lines, in file order
RECURSIVE get_file_appids(_)
get_file_appids(f) ==
    IF f = <<>> THEN <<>>
    ELSE IF Head(f).match
         THEN <<Head(f).id>> \o get_file_appids(Tail(f))
         ELSE get_file_appids(Tail(f))

\* ascending sequence of a set of integers
RECURSIVE Ascending(_)
Ascending(S) ==
    IF S = {} THEN <<>>
    ELSE LET m == CHOOSE a \in S : \A b \in S : a <= b
         IN <<m>> \o Ascending(S \ {m})

\* the table read as empty
get_db_appids_None(d) == <<>>

\* get_db_appids: SELECT appid, rows come in rowid (= appid) order
get_db_appids(d) == Ascending(DOMAIN d)

\* the difference forgotten: every file appid counts as new
get_new_appids_NoDifference(F, D) == ListsOf(F)

\* get_new_appids: the lists list(file_appids.difference(db_appids)) may be
get_new_appids(F, D) == ListsOf(F \ D)

\* get_old_appids: the lists list(db_appids.difference(file_appids)) may be
get_old_appids(F, D) == ListsOf(D \ F)

\* the blacklist ignored
strip_blacklisted_appids_Ignored(appids, bl) == ListsOf(appids)

\* strip_blacklisted_appids: the lists list(appids.difference(blacklist)) may be
strip_blacklisted_appids(appids, bl) == ListsOf(appids \ bl)

\* the blacklist applied to the stale identifiers as well
reconcile_StripsOld(F, D, bl) ==
    {[new |-> n, old |-> ol] :
        n \in UNION {IF bl # {}
                     THEN strip_blacklisted_appids(Range(nl), bl)
                     ELSE {nl} : nl \in get_new_appids(F, D)},
        ol \in UNION {IF bl # {}
                      THEN strip_blacklisted_appids(Range(o), bl)
                      ELSE {o} : o \in get_old_appids(F, D)}}

\* main, from get_new_appids to the blacklist: the (new, old) pairs of lists
\* it may end up with
reconcile(F, D, bl) ==
    {[new |-> n, old |-> ol] :
        n \in UNION {IF bl # {}
                     THEN strip_blacklisted_appids(Range(nl), bl)
                     ELSE {nl} : nl \in get_new_appids(F, D)},
        ol \in get_old_appids(F, D)}

\* range(1, max_tries): one attempt short
MoreTries_OffByOne(n, m) == n < m - 1

\* "for i in range(1, max_tries + 1)": is there an attempt after attempt n
MoreTries(n, m) == n < m

\* urllib raises HTTPError itself for a status outside 2xx
UrlopenRaises(st) == st < 200 \/ st > 299

\* the status is never looked at
StatusOk_Unchecked(st) == TRUE

\* "if not res.status == 200: raise RuntimeError"
StatusOk(st) == st = 200

\* the return code ignored
LaunchOk_Always(rc) == TRUE

\* launch_game: "if process.returncode != 0" is the failure branch
LaunchOk(rc) == rc = 0

\* the empty catalog not caught
NoGames_Never(dict) == FALSE

\* main: "if not games"
NoGames(dict) == dict = <<>>

\* the empty selection not caught
NoSelection_Never(sel) == FALSE

\* main: "if not selection"
NoSelection(sel) == sel = <<>>

\* an except in update_db's loop that goes on as after an empty name
RaiseLandsAt_UpdateDbGoesOn == "req_returned"

\* An exception raised in request_app_name: update_db and main call without
\* a try, so it ends the run.
RaiseLandsAt == "raised"

\* the empty name not caught
EmptyName_Never(name) == FALSE

\* update_db: "if len(app_name) == 0"
EmptyName(name) == Len(name) = 0

\* executemany(INSERT ...): the primary key refuses an appid already in the
\* table or inserted earlier in the same batch
InsertConflict(d, es) ==
    \E k \in DOMAIN es :
        \/ es[k].appid \in DOMAIN d
        \/ \E j \in 1..(k - 1) : es[j].appid = es[k].appid

InsertAll(d, es) ==
    [a \in DOMAIN d \cup {es[k].appid : k \in DOMAIN es} |->
        IF a \in DOMAIN d THEN d[a]
        ELSE LET k == CHOOSE k \in DOMAIN es : es[k].appid = a
             IN [name |-> es[k].name, timestamp |-> es[k].timestamp]]

\* the text parameter compared as a text: no integer appid equals it
DeleteAll_NoAffinity(d, ids) == d

\* executemany(DELETE ... WHERE appid = ?) with the parameters (str(x),)
DeleteAll(d, ids) ==
    LET params == {Str(ids[k]) : k \in DOMAIN ids}
        gone == {a \in DOMAIN d : \E t \in params : a = IntegerAffinity(t)}
    IN [a \in DOMAIN d \ gone |-> d[a]]

\* an upsert: the row is created when no row matches
Touch_Upsert(d, a, ts) ==
    [b \in DOMAIN d \cup {a} |->
        IF b = a
        THEN [name |-> IF a \in DOMAIN d THEN d[a].name ELSE <<>>,
              timestamp |-> ts]
        ELSE d[b]]

\* UPDATE ... SET timestamp = ? WHERE appid = ?
Touch(d, a, ts) ==
    [b \in DOMAIN d |-> IF b = a THEN [d[b] EXCEPT !.timestamp = ts] ELSE d[b]]

\* ORDER BY timestamp DESC NULLS LAST; equal keys in rowid order
RowBefore(d, a, b) ==
    \/ a = b
    \/ d[a].timestamp # Null /\ d[b].timestamp = Null
    \/ d[a].timestamp # Null /\ d[b].timestamp # Null
       /\ d[a].timestamp > d[b].timestamp
    \/ d[a].timestamp = d[b].timestamp /\ a < b

RECURSIVE OrderedRows(_, _)
OrderedRows(d, S) ==
    IF S = {} THEN <<>>
    ELSE LET f == CHOOSE a \in S : \A b \in S : RowBefore(d, a, b)
         IN <<f>> \o OrderedRows(d, S \ {f})

\* A dict is the sequence of its items in insertion order, keys unique.
DictKeys(dict) == [k \in DOMAIN dict |-> dict[k].name]

DictHas(dict, key) == \E k \in DOMAIN dict : dict[k].name = key

\* the first item's value whatever the key
DictGet_First(dict, key) == dict[1].appid

DictGet(dict, key) ==
    dict[CHOOSE k \in DOMAIN dict : dict[k].name = key].appid

\* dict[key] = value: a key already there keeps its place
DictSet(dict, key, value) ==
    IF DictHas(dict, key)
    THEN [k \in DOMAIN dict |->
            IF dict[k].name = key THEN [name |-> key, appid |-> value]
            ELSE dict[k]]
    ELSE Append(dict, [name |-> key, appid |-> value])

RECURSIVE DictFromRows(_, _, _)
DictFromRows(d, rows, dict) ==
    IF rows = <<>> THEN dict
    ELSE DictFromRows(d, Tail(rows),
                      DictSet(dict, d[Head(rows)].name, Head(rows)))

\* get_game_entries
get_game_entries(d) == DictFromRows(d, OrderedRows(d, DOMAIN d), <<>>)

\* What the prompt may print: a listed line, nothing (cancelled), an empty
\* line, or typed text.
PromptOutputs(names) ==
    {Append(names[k], "\n") : k \in DOMAIN names}
        \cup {<<>>, <<"\n">>, Append(CustomText, "\n")}

\* ------------------------------------------------------------- actions
\* The locals of a fresh process.
FreshLocals ==
    /\ file_appids' = {}
    /\ db_appids' = {}
    /\ new_appids' = <<>>
    /\ old_appids' = <<>>
    /\ file_dups' = FALSE
    /\ idx' = 0
    /\ entries' = <<>>
    /\ r_appid' = 0
    /\ max_tries' = 0
    /\ i' = 0
    /\ resp' = <<>>
    /\ app_name' = <<>>
    /\ sleeps' = 0
    /\ games' = <<>>
    /\ stdout' = <<>>
    /\ selection' = <<>>
    /\ appid' = 0
    /\ returncode' = 0
    /\ prompts' = 0
    /\ launches' = <<>>
    /\ db_upd' = EmptyDb
    /\ loaded' = FALSE
    /\ named' = {}

\* the update branch taken whatever the path
HasPath_Always(lp) == TRUE

\* main: "if lib_path:"; __main__ passes None for a path that is not a
\* .vdf file.
HasPath(lp) == lp

\* __main__: "assert config_path.is_file()" fails, main is never called.
ConfigError ==
    /\ pc \in {"exited", "raised"}
    /\ runs < MaxRuns
    /\ runs' = runs + 1
    /\ db0' = db
    /\ lib_path' = FALSE
    /\ blacklist' = {}
    /\ FreshLocals
    /\ pc' = "raised"
    /\ exc' = "AssertionError:config"
    /\ UNCHANGED <<dbVars, last_launch>>

\* __main__ calls main(con, libraryfolders_path, blacklist); setup_db finds
\* or creates the table and leaves its rows alone.
Main ==
    /\ pc \in {"exited", "raised"}
    /\ runs < MaxRuns
    /\ runs' = runs + 1
    /\ db0' = db
    /\ \E lp \in BOOLEAN :
        /\ lib_path' = lp
        /\ pc' = IF HasPath(lp) THEN "reconcile" ELSE "get_games"
    /\ blacklist' = {}
    /\ FreshLocals
    /\ exc' = ""
    /\ UNCHANGED <<dbVars, last_launch>>

\* main, "if lib_path:" down to "if new_appids:". The file and the blacklist
\* are read here for the first time, so this is where they are drawn;
\* update_db begins with an empty entries list when there is something new.
Reconcile ==
    /\ pc = "reconcile"
    /\ \E file \in Files, bl \in SUBSET AppIds :
       LET F == Range(get_file_appids(file))
           D == Range(get_db_appids(db))
       IN /\ blacklist' = bl
          /\ file_appids' = F
          /\ file_dups' = ~NoDuplicates(get_file_appids(file))
          /\ db_appids' = D
          /\ \E r \in reconcile(F, D, bl) :
                /\ new_appids' = r.new
                /\ old_appids' = r.old
    /\ idx' = 1
    /\ entries' = <<>>
    /\ pc' = IF new_appids' # <<>> THEN "upd_loop" ELSE "clean"
    /\ UNCHANGED <<dbVars, lib_path, reqVars, tailVars,
                   runVars, last_launch,
                   exc>>

\* update_db: the loop takes the next appid and calls request_app_name.
UpdateDbNext ==
    /\ pc = "upd_loop"
    /\ idx <= Len(new_appids)
    /\ r_appid' = new_appids[idx]
    /\ max_tries' = DefaultMaxTries
    /\ i' = 0
    /\ resp' = <<>>
    /\ app_name' = <<>>
    /\ sleeps' = 0
    /\ pc' = "req_loop"
    /\ UNCHANGED <<dbVars, cfgVars, reconVars, updVars, tailVars,
                   runVars, last_launch,
                   exc, named>>

\* request_app_name: one pass of the for loop up to the sleep or the return.
RequestAttempt ==
    /\ pc = "req_loop"
    /\ MoreTries(i, max_tries)
    /\ i' = i + 1
    /\ \E st \in Statuses, success \in BOOLEAN, raw \in RawNames :
        IF UrlopenRaises(st) \/ ~StatusOk(st)
        THEN /\ success = FALSE /\ raw = <<" ">>
             /\ resp' = Append(resp, [status |-> st, success |-> FALSE])
             /\ pc' = RaiseLandsAt
             /\ exc' = IF UrlopenRaises(st) THEN "HTTPError" ELSE "RuntimeError"
             /\ UNCHANGED <<app_name, named>>
        ELSE /\ resp' = Append(resp, [status |-> st, success |-> success])
             /\ IF ~success
                THEN /\ raw = <<" ">>
                     /\ pc' = "req_sleep"
                     /\ UNCHANGED <<app_name, named>>
                ELSE /\ app_name' = Strip(raw)
                     /\ named' = IF Strip(raw) # <<>>
                                 THEN named \cup {r_appid} ELSE named
                     /\ pc' = "req_returned"
             /\ exc' = exc
    /\ UNCHANGED <<dbVars, cfgVars, reconVars, updVars, tailVars,
                   runVars, last_launch,
                   r_appid, max_tries, sleeps>>

\* request_app_name: time.sleep(delay); continue
RequestSleep ==
    /\ pc = "req_sleep"
    /\ sleeps' = sleeps + 1
    /\ pc' = "req_loop"
    /\ UNCHANGED <<dbVars, cfgVars, reconVars, updVars, tailVars,
                   runVars, last_launch,
                   exc, r_appid, max_tries, i, resp, app_name, named>>

\* request_app_name: the loop is over, return ""
RequestExhausted ==
    /\ pc = "req_loop"
    /\ ~MoreTries(i, max_tries)
    /\ app_name' = <<>>
    /\ pc' = "req_returned"
    /\ UNCHANGED <<dbVars, cfgVars, reconVars, updVars, tailVars,
                   runVars, last_launch,
                   exc, r_appid, max_tries, i, resp, sleeps, named>>

\* each named entry inserted and committed as soon as it is resolved
UpdateDbNamed_InsertsAtOnce ==
    /\ pc = "req_returned"
    /\ IF EmptyName(app_name)
       THEN UNCHANGED <<entries, dbVars>>
       ELSE /\ clock' = clock + 1
            /\ entries' = entries
            /\ db' = InsertAll(db, <<[appid |-> new_appids[idx],
                                      name |-> app_name,
                                      timestamp |-> clock + 1]>>)
    /\ idx' = idx + 1
    /\ pc' = "upd_loop"
    /\ UNCHANGED <<cfgVars, reconVars, reqVars, tailVars,
                   runVars, last_launch, exc>>

\* update_db: back from request_app_name; skip an empty name, else append
\* (appid, name, get_timestamp()).
UpdateDbNamed ==
    /\ pc = "req_returned"
    /\ IF EmptyName(app_name)
       THEN UNCHANGED <<entries, clock>>
       ELSE /\ clock' = clock + 1
            /\ entries' = Append(entries, [appid |-> new_appids[idx],
                                           name |-> app_name,
                                           timestamp |-> clock + 1])
    /\ idx' = idx + 1
    /\ pc' = "upd_loop"
    /\ UNCHANGED <<db, cfgVars, reconVars, reqVars, tailVars,
                   runVars, last_launch, exc>>

\* update_db: "with con: executemany(INSERT ...)"; a refused row rolls the
\* whole batch back and the error leaves main.
UpdateDbInsert ==
    /\ pc = "upd_loop"
    /\ idx > Len(new_appids)
    /\ IF InsertConflict(db, entries)
       THEN /\ pc' = "raised"
            /\ exc' = "IntegrityError"
            /\ db' = db
       ELSE /\ pc' = "clean"
            /\ exc' = exc
            /\ db' = InsertAll(db, entries)
    /\ UNCHANGED <<clock, cfgVars, reconVars, updVars, reqVars, tailVars,
                   runVars, last_launch>>

\* main: "if old_appids: clean_db(db_con, old_appids)"
CleanDb ==
    /\ pc = "clean"
    /\ db' = IF old_appids # <<>> THEN DeleteAll(db, old_appids) ELSE db
    /\ last_launch' = [a \in DOMAIN last_launch \cap DOMAIN db' |->
                            last_launch[a]]
    /\ pc' = "get_games"
    /\ UNCHANGED <<clock, cfgVars, reconVars, updVars, reqVars, tailVars,
                   runVars, exc>>

\* main: games = get_game_entries(db_con); "if not games: return"
GetGames ==
    /\ pc = "get_games"
    /\ games' = get_game_entries(db)
    /\ db_upd' = db
    /\ loaded' = TRUE
    /\ pc' = IF NoGames(get_game_entries(db)) THEN "exited" ELSE "select"
    /\ UNCHANGED <<dbVars, cfgVars, reconVars, updVars, reqVars,
                   runVars, last_launch, exc,
                   stdout, selection, appid, returncode, prompts, launches>>

\* main: selection = select_entry(list(games.keys())); "if not selection"
SelectEntry ==
    /\ pc = "select"
    /\ IF Len(DictKeys(games)) = 0
       THEN /\ pc' = "raised"
            /\ exc' = "AssertionError:entries"
            /\ UNCHANGED <<stdout, selection, prompts>>
       ELSE /\ prompts' = prompts + 1
            /\ \E out \in PromptOutputs(DictKeys(games)) :
                /\ stdout' = out
                /\ selection' = Strip(out)
                /\ pc' = IF NoSelection(Strip(out)) THEN "exited" ELSE "lookup"
            /\ exc' = exc
    /\ UNCHANGED <<dbVars, cfgVars, reconVars, updVars, reqVars,
                   runVars, last_launch,
                   games, appid, returncode, launches, db_upd, loaded>>

\* main: appid = games[selection]
Lookup ==
    /\ pc = "lookup"
    /\ IF DictHas(games, selection)
       THEN /\ appid' = DictGet(games, selection)
            /\ pc' = "launch"
            /\ exc' = exc
       ELSE /\ pc' = "raised"
            /\ exc' = "KeyError"
            /\ appid' = appid
    /\ UNCHANGED <<dbVars, cfgVars, reconVars, updVars, reqVars,
                   runVars, last_launch,
                   games, stdout, selection, returncode, prompts, launches,
                   db_upd, loaded>>

\* launch_game: run the launcher; check_returncode() raises on a non-zero
\* status, else the row's timestamp is set to now.
LaunchGame ==
    /\ pc = "launch"
    /\ launches' = Append(launches, appid)
    /\ \E rc \in {0, 1} :
        /\ returncode' = rc
        /\ IF ~LaunchOk(rc)
           THEN /\ pc' = "raised"
                /\ exc' = "CalledProcessError"
                /\ UNCHANGED <<dbVars, last_launch>>
           ELSE /\ clock' = clock + 1
                /\ db' = Touch(db, appid, clock + 1)
                /\ last_launch' =
                      [a \in DOMAIN last_launch \cup ({appid} \cap DOMAIN db)
                          |-> IF a = appid THEN clock + 1 ELSE last_launch[a]]
                /\ pc' = "exited"
                /\ exc' = exc
    /\ UNCHANGED <<cfgVars, reconVars, updVars, reqVars, runVars,
                   games, stdout, selection, appid, prompts, db_upd, loaded>>

Next ==
    \/ ConfigError
    \/ Main
    \/ Reconcile
    \/ UpdateDbNext
    \/ RequestAttempt
    \/ RequestSleep
    \/ RequestExhausted
    \/ UpdateDbNamed
    \/ UpdateDbInsert
    \/ CleanDb
    \/ GetGames
    \/ SelectEntry
    \/ Lookup
    \/ LaunchGame

Spec == Init /\ [][Next]_vars

NextResolver ==
    \/ RequestAttempt
    \/ RequestSleep
    \/ RequestExhausted

ResolverSpec == InitResolver /\ [][NextResolver]_vars

\* launch_game alone
NextLaunch == LaunchGame

LaunchSpec == InitLaunch /\ [][NextLaunch]_vars

\* -------------------------------------------------------------- claims
\* The run reconciled: the locals new_appids and old_appids hold its result.
Reconciled == lib_path /\ pc # "reconcile"

\* The run finished its catalog update (update_db and clean_db) normally.
UpdateDone == lib_path /\ (pc = "get_games" \/ loaded)

\* The catalog the run found.
CatalogBefore == DOMAIN db0

\* C1: with an empty exclusion list the reconciliation of the file set F and
\* the catalog set C is new = F - C and stale = C - F, and the two are
\* disjoint.
C1_ReconcileIsSetDifference ==
    (Reconciled /\ blacklist = {}) =>
        /\ Range(new_appids) = file_appids \ CatalogBefore
        /\ Range(old_appids) = CatalogBefore \ file_appids
        /\ Range(new_appids) \cap Range(old_appids) = {}
        /\ NoDuplicates(new_appids)
        /\ NoDuplicates(old_appids)

C1_Witness ==
    /\ Reconciled
    /\ blacklist = {}
    /\ new_appids # <<>>
    /\ old_appids # <<>>
    /\ file_appids \cap CatalogBefore # {}

\* C2: with an exclusion set X the new identifiers are a subset of the new
\* identifiers without exclusion (F - C) and the stale identifiers are still
\* C - F; so once the update is done a cached identifier is in the catalog
\* exactly when it is in the file, excluded or not.
C2_ExclusionOnlyShrinksNew ==
    /\ Reconciled =>
        /\ Range(new_appids) \subseteq file_appids \ CatalogBefore
        /\ Range(old_appids) = CatalogBefore \ file_appids
    /\ UpdateDone =>
        \A a \in CatalogBefore : a \in DOMAIN db <=> a \in file_appids

C2_Witness ==
    /\ UpdateDone
    /\ Range(new_appids) # file_appids \ CatalogBefore
    /\ \E a \in blacklist : a \in CatalogBefore /\ a \notin file_appids
                            /\ a \notin DOMAIN db
    /\ \E a \in blacklist : a \in CatalogBefore /\ a \in file_appids
                            /\ a \in DOMAIN db

\* C3: once a reconciliation result has been applied to the catalog (every
\* new identifier inserted, every stale one removed), reconciling the
\* unchanged file set and exclusion list against the catalog gives no new
\* and no stale identifier.
C3_ReconcileIdempotent ==
    (UpdateDone /\ Range(new_appids) \subseteq named) =>
        \A r \in reconcile(file_appids, Range(get_db_appids(db)), blacklist) :
            r.new = <<>> /\ r.old = <<>>

C3_Witness ==
    /\ UpdateDone
    /\ Range(new_appids) \subseteq named
    /\ Len(new_appids) > 1
    /\ old_appids # <<>>
    /\ blacklist # {}

\* Every response of the current request_app_name call was a 200 whose
\* payload said success: false.
AllSemanticFailures ==
    \A k \in DOMAIN resp : resp[k].status = 200 /\ ~resp[k].success

\* C4: when every response is a successful transport response carrying the
\* failure flag, request_app_name never raises, issues no more than
\* max_tries requests, and returns only after exactly max_tries requests,
\* with the empty string.
C4_RetriesExactlyMaxTries ==
    AllSemanticFailures =>
        /\ pc \in {"req_loop", "req_sleep", "req_returned"}
        /\ exc = ""
        /\ Len(resp) <= max_tries
        /\ pc = "req_returned" => Len(resp) = max_tries /\ app_name = <<>>

C4_Witness ==
    /\ AllSemanticFailures
    /\ pc = "req_returned"
    /\ max_tries = DefaultMaxTries
    /\ Len(resp) = DefaultMaxTries

\* C5: a response with a non-success transport status is the last one of
\* its call: the call has raised, and it slept only after the attempts
\* before it (no sleep for the failed attempt, no request after it).
C5_TransportErrorNotRetried ==
    \A k \in DOMAIN resp :
        resp[k].status # 200 =>
            /\ k = Len(resp)
            /\ pc = "raised"
            /\ exc \in {"HTTPError", "RuntimeError"}
            /\ i = k
            /\ sleeps = k - 1

C5_Witness ==
    /\ pc = "raised"
    /\ Len(resp) = 2
    /\ resp[2].status = 204
    /\ sleeps = 1

\* C6: after the catalog update of a run with a library path and no error,
\* the catalog holds the identifiers it had that are still in the file,
\* and the new, not excluded identifiers whose name came back non-empty.
C6_CatalogAfterUpdate ==
    UpdateDone =>
        DOMAIN db = (CatalogBefore \cap file_appids)
            \cup {a \in (file_appids \ CatalogBefore) \ blacklist : a \in named}

\* Scenario A: F = {10, 20}, C = {20, 30}, X = {10} ends with {20}.
C6_Witness ==
    /\ UpdateDone
    /\ file_appids = {10, 20}
    /\ CatalogBefore = {20, 30}
    /\ blacklist = {10}
    /\ DOMAIN db = {20}

\* The timestamps the run has changed, among the entries it found.
TouchedSinceStart ==
    {a \in DOMAIN db \cap DOMAIN db0 : db[a].timestamp # db0[a].timestamp}

\* C7: a non-zero exit status of the launcher ends the run with
\* CalledProcessError and leaves the catalog as get_game_entries read it;
\* a timestamp the run changed is that of the one identifier the launcher
\* was started with and exited 0 for.
C7_LaunchFailureKeepsTimestamp ==
    /\ (launches # <<>> /\ returncode # 0) =>
        /\ pc = "raised"
        /\ exc = "CalledProcessError"
        /\ db = db_upd
        /\ TouchedSinceStart = {}
    /\ \A a \in TouchedSinceStart :
        returncode = 0 /\ launches = <<a>> /\ pc = "exited" /\ exc = ""

C7_Witness ==
    /\ launches # <<>>
    /\ returncode # 0
    /\ launches[1] \in DOMAIN db0
    /\ exc = "CalledProcessError"

\* C8: when the catalog is empty after the update step, the run has ended
\* normally without running the prompt or the launcher.
C8_EmptyCatalogNoPrompt ==
    (loaded /\ DOMAIN db = {}) =>
        pc = "exited" /\ exc = "" /\ prompts = 0 /\ launches = <<>>

C8_Witness ==
    /\ loaded
    /\ DOMAIN db = {}
    /\ DOMAIN db0 # {}

\* C9: when select_entry returns the empty string, the run has ended
\* normally, the launcher was not started and the catalog is as
\* get_game_entries read it.
C9_EmptySelectionNoLaunch ==
    (prompts > 0 /\ selection = <<>>) =>
        pc = "exited" /\ exc = "" /\ launches = <<>> /\ db = db_upd

C9_Witness ==
    /\ prompts > 0
    /\ stdout = <<>>
    /\ selection = <<>>
    /\ Len(games) > 1

\* C10: a run ends with an exception only on a configuration error or a
\* launch failure, whatever the resolver's responses and the prompt's output.
C10_OnlyConfigOrLaunchAborts ==
    pc = "raised" => exc \in {"AssertionError:config", "CalledProcessError"}

\* C10, the unmatched prompt output alone: it never ends the run with an
\* exception.
C10_UnmatchedSelectionReturns ==
    (prompts > 0 /\ selection # <<>> /\ ~DictHas(games, selection)) =>
        exc = ""

\* C11: in the list get_game_entries gives for the catalog, an entry that
\* was launched is never behind one that never was, and the launched
\* entries come most recently launched first.
C11_LaunchedFirstNeverLaunchedLast ==
    LET g == get_game_entries(db)
    IN \A j, k \in DOMAIN g :
        j < k =>
            /\ g[k].appid \in DOMAIN last_launch
                  => g[j].appid \in DOMAIN last_launch
            /\ {g[j].appid, g[k].appid} \subseteq DOMAIN last_launch
                  => last_launch[g[j].appid] >= last_launch[g[k].appid]

\* The exceptions a transport error raises in request_app_name.
TransportErrors == {"HTTPError", "RuntimeError"}

\* C12: a resolution that ends with the empty name does not end the run:
\* before get_game_entries a run with a library path is ended by a
\* transport error only; once the update is done, exactly the new
\* identifiers with a non-empty name were inserted, the stale ones are gone,
\* and a non-empty catalog brings the run to the selection prompt.
C12_SemanticFailureSkipsOneAppid ==
    /\ (pc = "raised" /\ lib_path /\ ~loaded) =>
        /\ exc \in TransportErrors
        /\ resp # <<>>
        /\ resp[Len(resp)].status # 200
    /\ UpdateDone =>
        /\ \A a \in Range(new_appids) : a \in DOMAIN db <=> a \in named
        /\ Range(old_appids) \cap DOMAIN db = {}
    /\ (UpdateDone /\ loaded /\ DOMAIN db # {}) =>
        (pc = "select" /\ prompts = 0) \/ prompts = 1

\* The last new identifier used up its attempts, an earlier one was named
\* and inserted, a stale one was removed and the prompt ran.
C12_Witness ==
    /\ UpdateDone
    /\ Len(resp) = DefaultMaxTries
    /\ AllSemanticFailures
    /\ r_appid \in Range(new_appids) \ DOMAIN db
    /\ named # {}
    /\ named \subseteq DOMAIN db
    /\ old_appids # <<>>
    /\ prompts = 1

\* C13: a transport error while a new identifier is resolved ends the run
\* there: the identifier being resolved is the last one asked for, the
\* catalog is as the run found it (the stale identifiers still in it),
\* get_game_entries, the prompt and the launcher have not run.
C13_TransportErrorHaltsRun ==
    exc \in TransportErrors =>
        /\ pc = "raised"
        /\ idx \in DOMAIN new_appids
        /\ r_appid = new_appids[idx]
        /\ resp[Len(resp)].status # 200
        /\ db = db0
        /\ Range(old_appids) \subseteq DOMAIN db
        /\ ~loaded
        /\ games = <<>>
        /\ prompts = 0
        /\ launches = <<>>

\* The error came while a later new identifier and a stale one were waiting.
C13_Witness ==
    /\ exc \in TransportErrors
    /\ idx < Len(new_appids)
    /\ old_appids # <<>>

\* A run of main that was given no valid library path.
NoPathRun == runs > 0 /\ ~lib_path /\ exc # "AssertionError:config"

\* C14: a run without a valid library path skips the catalog update: no
\* reconciliation, no resolver request, no insert or delete, and the entries
\* loaded for the selection step are those the catalog had when the run
\* started.
C14_NoPathSkipsUpdate ==
    NoPathRun =>
        /\ pc \in {"get_games", "select", "lookup", "launch", "exited", "raised"}
        /\ resp = <<>>
        /\ sleeps = 0
        /\ named = {}
        /\ entries = <<>>
        /\ new_appids = <<>>
        /\ old_appids = <<>>
        /\ launches = <<>> => db = db0
        /\ loaded =>
            /\ db_upd = db0
            /\ games = get_game_entries(db0)

\* Such a run reached the prompt with a catalog filled by an earlier run.
C14_Witness ==
    /\ NoPathRun
    /\ prompts = 1
    /\ Len(games) > 1

\* C15: launch_game for an identifier that has no row: after the launcher
\* exited 0 the UPDATE matches nothing, the table is as it was (no row
\* created, none changed) and the call returns without an exception.
C15_TouchAbsentIsNoOp ==
    (launches # <<>> /\ LaunchOk(returncode) /\ appid \notin DOMAIN db0) =>
        /\ launches = <<appid>>
        /\ pc = "exited"
        /\ exc = ""
        /\ db = db0

\* The launch of an absent identifier succeeded while other rows existed.
C15_Witness ==
    /\ launches # <<>>
    /\ LaunchOk(returncode)
    /\ appid \notin DOMAIN db0
    /\ DOMAIN db0 # {}
    /\ pc = "exited"

\* C16: in request_app_name a sleep is only begun when another attempt is
\* left, and a call whose attempts all failed semantically has slept
\* max_tries - 1 times when it returns.
C16_SleepOnlyBeforeRetry ==
    /\ pc = "req_sleep" => i < max_tries
    /\ (pc = "req_returned" /\ max_tries > 0 /\ Len(resp) = max_tries
            /\ AllSemanticFailures) =>
        sleeps = max_tries - 1

\* C17: the list loaded for the prompt has one item per catalog entry, in
\* catalog order, each item carrying its entry's name and identifier (so
\* that choosing it launches that identifier), also when names repeat.
C17_EveryEntryOfferedAndLaunchable ==
    loaded =>
        LET rows == OrderedRows(db_upd, DOMAIN db_upd)
        IN /\ Len(games) = Len(rows)
           /\ \A k \in DOMAIN rows :
                 k \in DOMAIN games =>
                    /\ games[k].name = db_upd[rows[k]].name
                    /\ games[k].appid = rows[k]

\* C18: a run starts the launcher at most once, after its one prompt, and
\* with the identifier of a row that is in the table and whose name is the
\* stripped output of the prompt; an output that is no listed name starts
\* nothing.
C18_LaunchOnlyMatchedEntry ==
    /\ Len(launches) <= 1
    /\ launches # <<>> =>
        /\ prompts = 1
        /\ launches[1] = appid
        /\ appid \in DOMAIN db
        /\ db[appid].name = selection
        /\ selection = Strip(stdout)
        /\ DictHas(games, selection)
    /\ (prompts = 1 /\ ~DictHas(games, selection)) => launches = <<>>

\* The second of several listed entries was launched.
C18_Witness ==
    /\ launches # <<>>
    /\ Len(games) > 1
    /\ appid = games[2].appid
    /\ LaunchOk(returncode)

\* Typed text that is no listed name ended the run without a launch.
C18_UnmatchedWitness ==
    /\ prompts = 1
    /\ selection = CustomText
    /\ pc = "raised"
    /\ launches = <<>>

\* C19: when resolving a new identifier raises a transport error, none of
\* the entries update_db had collected from earlier successful resolutions is
\* in the table, which is exactly the table the run started with.
C19_BatchInsertAllOrNothing ==
    exc \in TransportErrors =>
        /\ db = db0
        /\ \A k \in DOMAIN entries :
              /\ entries[k].appid \in named
              /\ entries[k].appid \notin DOMAIN db
        /\ named = {entries[k].appid : k \in DOMAIN entries}

\* The error came after two identifiers of the batch had been resolved.
C19_Witness ==
    /\ exc \in TransportErrors
    /\ Len(entries) = 2
    /\ idx = 3

\* While update_db works on the list of new identifiers.
InUpdateDb == pc \in {"upd_loop", "req_loop", "req_sleep", "req_returned"}

\* C20: whatever the file (duplicate lines included) and the table, the
\* list update_db is given has no identifier twice and none that has a row,
\* so the batch it builds is never refused by the primary key and no run
\* ends with IntegrityError.
C20_InsertNeverConflicts ==
    /\ exc # "IntegrityError"
    /\ (lib_path /\ InUpdateDb) =>
        /\ NoDuplicates(new_appids)
        /\ Range(new_appids) \cap DOMAIN db = {}
        /\ ~InsertConflict(db, entries)
        /\ \A k \in DOMAIN entries : entries[k].appid \in Range(new_appids)

\* A file with a repeated identifier and one already in the table was read,
\* and the batch built from it was inserted.
C20_Witness ==
    /\ file_dups
    /\ file_appids \cap CatalogBefore # {}
    /\ entries # <<>>
    /\ pc = "clean"
    /\ {entries[k].appid : k \in DOMAIN entries} \subseteq DOMAIN db

====
